---- MODULE Spec2Model ----
(***************************************************************************)
(* Model of gd_sqlite3.SQLite3Database (src/src/gd_sqlite3/__init__.py):   *)
(* the record mapper over one sqlite3 connection.  The mapper generates a  *)
(* statement from the introspected column list, hands it to the engine     *)
(* through a cursor and commits.  The engine side (what sqlite3 does with  *)
(* the generated statement) is modelled as far as the statements generated *)
(* by the mapper need it: NOT NULL / UNIQUE / PRIMARY KEY constraints,     *)
(* rowid assignment, REPLACE conflict resolution, AFTER INSERT triggers,   *)
(* statement-level rollback and the implicit transaction the Python        *)
(* sqlite3 module opens before a data-modifying statement.                 *)
(***************************************************************************)
EXTENDS Integers, Sequences, FiniteSets, TLC

VARIABLES conn, committed, inTxn, last

vars == <<conn, committed, inTxn, last>>

----------------------------------------------------------------------------
(* Bounds *)

MaxId == 3
MaxBatch == 2

----------------------------------------------------------------------------
(* SQL values: the storage classes NULL, INTEGER and TEXT *)

Null == [t |-> "null", n |-> 0, s |-> ""]
IntV(i) == [t |-> "int", n |-> i, s |-> ""]
TextV(x) == [t |-> "text", n |-> 0, s |-> x]

\* the value CURRENT_TIMESTAMP yields inside the trigger body
CurrentTimestamp == TextV("ts")

Range(f) == {f[i] : i \in DOMAIN f}

\* s[1:] of Python
Slice1(s) == SubSeq(s, 2, Len(s))

----------------------------------------------------------------------------
(* Column definitions as passed to create_table: an ordered dict           *)
(* name -> definition, a definition being a string made of the tokens      *)
(* "<type> [not null] [unique]".                                           *)

\* str.upper() on the tokens of a column definition
UpperTok(tok) ==
    CASE tok = "text" -> "TEXT"
      [] tok = "integer" -> "INTEGER"
      [] tok = "not null" -> "NOT NULL"
      [] tok = "unique" -> "UNIQUE"
      [] tok = "primary key" -> "PRIMARY KEY"
      [] OTHER -> tok

Upper(def) == [i \in 1..Len(def) |-> UpperTok(def[i])]

\* the two tables of column definitions used as inputs (after the
\* "locations" table of the tests, cut down to four columns)
FieldsLoc ==
    << <<"slug", <<"text", "not null", "unique">> >>,
       <<"email", <<"text", "not null">> >>,
       <<"created_on", <<"TEXT">> >> >>

FieldsAlt ==
    << <<"created_on", <<"text">> >>,
       <<"slug", <<"TEXT", "NOT NULL", "UNIQUE">> >> >>

FieldSets == {FieldsLoc, FieldsAlt}

\* a column of a table as the engine keeps it
Column(name, type, notnull, dflt, pk, unique) ==
    [name |-> name, type |-> type, notnull |-> notnull, dflt |-> dflt,
     pk |-> pk, unique |-> unique]

\* the engine parsing one column definition "name TYPE [NOT NULL] [UNIQUE]";
\* keywords are case-insensitive, the type name is kept as written
ParseColumn(name, def) ==
    Column(name, def[1],
           \E i \in 2..Len(def) : UpperTok(def[i]) = "NOT NULL",
           Null,
           \E i \in 2..Len(def) : UpperTok(def[i]) = "PRIMARY KEY",
           \E i \in 2..Len(def) : UpperTok(def[i]) = "UNIQUE")

----------------------------------------------------------------------------
(* The database as one connection sees it: the table (if it exists), its   *)
(* rows as tuples in column order, and the triggers on it.                 *)

NoTable == [exists |-> FALSE, schema |-> <<>>, rows |-> {}, triggers |-> {}]

ColNames(schema) == [i \in 1..Len(schema) |-> schema[i].name]

HasColumn(schema, name) == \E i \in 1..Len(schema) : schema[i].name = name

ColIndex(schema, name) == CHOOSE i \in 1..Len(schema) : schema[i].name = name

PkIndex(schema) == CHOOSE i \in 1..Len(schema) : schema[i].pk

RowId(schema, row) == row[PkIndex(schema)].n

MaxRowId(schema, rows) ==
    IF rows = {} THEN 0
    ELSE CHOOSE m \in {RowId(schema, r) : r \in rows} :
             \A r \in rows : RowId(schema, r) <= m

\* rows in rowid order, the order of a table scan
RECURSIVE ScanOrder(_, _)
ScanOrder(schema, rows) ==
    IF rows = {} THEN <<>>
    ELSE LET first == CHOOSE r \in rows :
                          \A q \in rows : RowId(schema, r) <= RowId(schema, q)
         IN <<first>> \o ScanOrder(schema, rows \ {first})

\* r and row collide on the primary key or on a UNIQUE column
\* (NULLs never collide)
Collides(schema, r, row) ==
    \E i \in 1..Len(schema) :
        /\ schema[i].pk \/ schema[i].unique
        /\ row[i] # Null
        /\ r[i] = row[i]

NotNullViolated(schema, row) ==
    \E i \in 1..Len(schema) : schema[i].notnull /\ row[i] = Null

----------------------------------------------------------------------------
(* Statements generated by the mapper.  A statement is the parsed form of  *)
(* the generated SQL text: its kind, the column list, the columns of the   *)
(* WHERE conjunction "c1=? AND c2=? ..." and whether the text has a WHERE  *)
(* keyword at all.                                                          *)

Stmt(kind) ==
    [kind |-> kind, cols |-> <<>>, hasWhere |-> FALSE, where |-> <<>>,
     orReplace |-> FALSE, defs |-> <<>>, name |-> ""]

\* ' AND '.join(f"{f}=?" for f in query.keys()) after the WHERE keyword;
\* a query (dict) is a sequence of <<key, value>> pairs
QueryKeys(query) == [i \in 1..Len(query) |-> query[i][1]]
QueryValues(query) == [i \in 1..Len(query) |-> query[i][2]]

\* the trigger of the tests: AFTER INSERT ... SET created_on =
\* CURRENT_TIMESTAMP WHERE rowid = NEW.rowid
CreatedOnTrigger == "locations_meta_created_on"
TriggerNames == {CreatedOnTrigger}

IsDML(stmt) == stmt.kind \in {"insert", "update", "delete"}

----------------------------------------------------------------------------
(* The engine: preparing a statement *)

WhereError(db, stmt) ==
    stmt.hasWhere /\
      \/ stmt.where = <<>>                                \* "WHERE ;"
      \/ \E i \in 1..Len(stmt.where) : ~HasColumn(db.schema, stmt.where[i])

ColsError(db, stmt) ==
    \/ stmt.cols = <<>>                     \* "SELECT  FROM", "INSERT ... ()"
    \/ \E i \in 1..Len(stmt.cols) : ~HasColumn(db.schema, stmt.cols[i])

PrepareError(db, stmt) ==
    CASE stmt.kind = "create_table" -> FALSE
      [] stmt.kind = "drop_table" -> FALSE
      [] stmt.kind = "create_trigger" ->
            ~db.exists \/ stmt.name \in db.triggers
      [] stmt.kind = "select_all" -> ~db.exists
      [] stmt.kind = "select" ->
            ~db.exists \/ ColsError(db, stmt) \/ WhereError(db, stmt)
      [] stmt.kind = "insert" -> ~db.exists \/ ColsError(db, stmt)
      [] stmt.kind = "update" ->
            ~db.exists \/ ColsError(db, stmt) \/ WhereError(db, stmt)
      [] stmt.kind = "delete" -> ~db.exists \/ WhereError(db, stmt)

----------------------------------------------------------------------------
(* The engine: running a prepared statement.  A step returns               *)
(* [err, db, res]; on an error the statement's own changes are rolled back *)
(* (db is the database before the statement).                               *)

Ok(db, res) == [err |-> FALSE, db |-> db, res |-> res]
Fail(db) == [err |-> TRUE, db |-> db, res |-> <<>>]

\* the rows for which every WHERE column equals its parameter; params are
\* the trailing parameters of the statement, one per WHERE column
Matching(db, where, params) ==
    {r \in db.rows :
        \A i \in 1..Len(where) :
            /\ params[i] # Null
            /\ r[ColIndex(db.schema, where[i])] = params[i]}

StepCreateTable(db, stmt) ==
    IF db.exists
    THEN Ok(db, <<>>)                                   \* IF NOT EXISTS
    ELSE Ok([exists |-> TRUE,
             schema |-> [i \in 1..Len(stmt.defs) |->
                            ParseColumn(stmt.defs[i][1], stmt.defs[i][2])],
             rows |-> {}, triggers |-> {}], <<>>)

StepDropTable(db) == Ok(NoTable, <<>>)

StepCreateTrigger(db, stmt) ==
    Ok([db EXCEPT !.triggers = @ \cup {stmt.name}], <<>>)

StepSelect(db, stmt, params) ==
    LET hits == ScanOrder(db.schema, Matching(db, stmt.where, params))
    IN Ok(db, [k \in 1..Len(hits) |->
                 [i \in 1..Len(stmt.cols) |->
                     hits[k][ColIndex(db.schema, stmt.cols[i])]]])

StepSelectAll(db) == Ok(db, ScanOrder(db.schema, db.rows))

\* AFTER INSERT trigger body applied to the new row
FireInsertTriggers(db, row) ==
    IF CreatedOnTrigger \in db.triggers /\ HasColumn(db.schema, "created_on")
    THEN [row EXCEPT ![ColIndex(db.schema, "created_on")] = CurrentTimestamp]
    ELSE row

\* INSERT [OR REPLACE] INTO t (cols) VALUES (params)
StepInsert(db, stmt, params) ==
    LET schema == db.schema
        given(i) == \E j \in 1..Len(stmt.cols) : stmt.cols[j] = schema[i].name
        bound(i) == params[CHOOSE j \in 1..Len(stmt.cols) :
                               stmt.cols[j] = schema[i].name]
        raw == [i \in 1..Len(schema) |->
                  IF given(i) THEN bound(i) ELSE schema[i].dflt]
        \* a NULL rowid is assigned by the engine: largest rowid + 1
        withId == [i \in 1..Len(schema) |->
                     IF schema[i].pk /\ raw[i] = Null
                     THEN IntV(MaxRowId(schema, db.rows) + 1)
                     \* REPLACE turns a NULL in a NOT NULL column into the
                     \* column's default, if it has one
                     ELSE IF stmt.orReplace /\ schema[i].notnull
                             /\ raw[i] = Null
                          THEN schema[i].dflt
                          ELSE raw[i]]
        clash == {r \in db.rows : Collides(schema, r, withId)}
    IN  IF Len(params) # Len(stmt.cols) THEN Fail(db)
        ELSE IF NotNullViolated(schema, withId) THEN Fail(db)
        ELSE IF clash # {} /\ ~stmt.orReplace THEN Fail(db)
        ELSE Ok([db EXCEPT !.rows = (@ \ clash)
                               \cup {FireInsertTriggers(db, withId)}], <<>>)

\* UPDATE t SET cols = params[1..n] WHERE where = params[n+1..]: the
\* matching rows are rewritten one after the other, each checked against
\* the table as it then stands
RECURSIVE UpdateRows(_, _, _, _)
UpdateRows(schema, rows, todo, new) ==
    IF todo = <<>> THEN [err |-> FALSE, rows |-> rows]
    ELSE LET old == Head(todo)
             row == [i \in 1..Len(schema) |->
                        IF new[i].set THEN new[i].val ELSE old[i]]
             others == rows \ {old}
         IN  IF \/ row[PkIndex(schema)].t # "int"       \* datatype mismatch
                \/ NotNullViolated(schema, row)
                \/ \E r \in others : Collides(schema, r, row)
             THEN [err |-> TRUE, rows |-> rows]
             ELSE UpdateRows(schema, others \cup {row}, Tail(todo), new)

StepUpdate(db, stmt, params) ==
    LET schema == db.schema
        n == Len(stmt.cols)
        new == [i \in 1..Len(schema) |->
                  IF \E j \in 1..n : stmt.cols[j] = schema[i].name
                  THEN [set |-> TRUE,
                        val |-> params[CHOOSE j \in 1..n :
                                         stmt.cols[j] = schema[i].name]]
                  ELSE [set |-> FALSE, val |-> Null]]
        hits == Matching(db, stmt.where, SubSeq(params, n + 1, Len(params)))
        r == UpdateRows(schema, db.rows, ScanOrder(schema, hits), new)
    IN  IF Len(params) # n + Len(stmt.where) THEN Fail(db)
        ELSE IF r.err THEN Fail(db)
        ELSE Ok([db EXCEPT !.rows = r.rows], <<>>)

StepDelete(db, stmt, params) ==
    IF stmt.hasWhere
    THEN Ok([db EXCEPT !.rows = @ \ Matching(db, stmt.where, params)], <<>>)
    ELSE Ok([db EXCEPT !.rows = {}], <<>>)

Step(db, stmt, params) ==
    CASE stmt.kind = "create_table" -> StepCreateTable(db, stmt)
      [] stmt.kind = "drop_table" -> StepDropTable(db)
      [] stmt.kind = "create_trigger" -> StepCreateTrigger(db, stmt)
      [] stmt.kind = "select" -> StepSelect(db, stmt, params)
      [] stmt.kind = "select_all" -> StepSelectAll(db)
      [] stmt.kind = "insert" -> StepInsert(db, stmt, params)
      [] stmt.kind = "update" -> StepUpdate(db, stmt, params)
      [] stmt.kind = "delete" -> StepDelete(db, stmt, params)

----------------------------------------------------------------------------
(* The Python sqlite3 layer: cursor.execute / executemany / commit.        *)
(* self is the SQLite3Database: its connection's view of the database,     *)
(* the committed database and whether the connection has a transaction     *)
(* open.  The connection is opened with the default isolation level, so a  *)
(* BEGIN is issued before a prepared INSERT/UPDATE/DELETE when no           *)
(* transaction is open, and nothing ends the transaction but commit().     *)

Self(c, com, txn) == [conn |-> c, committed |-> com, inTxn |-> txn]

cursor_execute(self, stmt, params) ==
    IF PrepareError(self.conn, stmt)
    THEN [raised |-> TRUE, self |-> self, res |-> <<>>]
    ELSE LET r == Step(self.conn, stmt, params)
         IN [raised |-> r.err,
             self |-> [self EXCEPT !.conn = r.db,
                                   !.inTxn = @ \/ IsDML(stmt)],
             res |-> r.res]

\* the statement run once per parameter tuple, stopping at the first error;
\* the rows of the tuples before it stay in the open transaction
RECURSIVE RunMany(_, _, _)
RunMany(db, stmt, values) ==
    IF values = <<>> THEN Ok(db, <<>>)
    ELSE LET r == Step(db, stmt, Head(values))
         IN IF r.err THEN Fail(r.db) ELSE RunMany(r.db, stmt, Tail(values))

cursor_executemany(self, stmt, values) ==
    IF PrepareError(self.conn, stmt)
    THEN [raised |-> TRUE, self |-> self, res |-> <<>>]
    ELSE LET r == RunMany(self.conn, stmt, values)
         IN [raised |-> r.err,
             self |-> [self EXCEPT !.conn = r.db,
                                   !.inTxn = @ \/ IsDML(stmt)],
             res |-> <<>>]

commit(self) == [self EXCEPT !.committed = self.conn, !.inTxn = FALSE]

\* how a method ends: the exception of the cursor propagates, or the
\* method returns a value
Raise(self) == [raised |-> TRUE, self |-> self, result |-> <<>>]
Return(self, result) == [raised |-> FALSE, self |-> self, result |-> result]

----------------------------------------------------------------------------
(* SQLite3Database *)

Flag(b) == IF b THEN 1 ELSE 0

\* PRAGMA table_info(table): (cid, name, type, notnull, dflt_value, pk)
get_table_info(self) ==
    LET schema == self.conn.schema
    IN [i \in 1..Len(schema) |->
          <<i - 1, schema[i].name, schema[i].type, Flag(schema[i].notnull),
            schema[i].dflt, Flag(schema[i].pk)>>]

table_columns(self) ==
    LET columns == get_table_info(self)
    IN [i \in 1..Len(columns) |-> columns[i][2]]

\* variant: every field takes the row's first value
ZipFirst(col_names, row) == [name \in Range(col_names) |-> row[1]]

\* c(**dict(zip(col_names, row)))
Zip(col_names, row) ==
    [name \in Range(col_names) |->
        row[CHOOSE i \in 1..Len(col_names) : col_names[i] = name]]

\* variant: the values bound in reverse column order
GetAttrsReversed(obj, names) ==
    [i \in 1..Len(names) |-> obj[names[Len(names) + 1 - i]]]

\* tuple(getattr(obj, name) for name in names)
GetAttrs(obj, names) == [i \in 1..Len(names) |-> obj[names[i]]]

\* variant: the definitions passed on as written, without upper()
CreateTableStmtAsWritten(fields) ==
    [Stmt("create_table") EXCEPT
        !.defs = << <<"id", <<"INTEGER", "PRIMARY KEY">> >> >>
                 \o [i \in 1..Len(fields) |-> <<fields[i][1], fields[i][2]>>]]

CreateTableStmt(fields) ==
    [Stmt("create_table") EXCEPT
        !.defs = << <<"id", <<"INTEGER", "PRIMARY KEY">> >> >>
                 \o [i \in 1..Len(fields) |->
                        <<fields[i][1], Upper(fields[i][2])>>]]

create_table(self, fields) ==
    LET r == cursor_execute(self, CreateTableStmt(fields), <<>>)
    IN IF r.raised THEN Raise(r.self)
       ELSE Return(commit(r.self), get_table_info(commit(r.self)))

drop_table(self) ==
    LET r == cursor_execute(self, Stmt("drop_table"), <<>>)
    IN IF r.raised THEN Raise(r.self) ELSE Return(commit(r.self), <<>>)

create_trigger(self, trigger_name) ==
    LET r == cursor_execute(self,
                 [Stmt("create_trigger") EXCEPT !.name = trigger_name], <<>>)
    IN IF r.raised THEN Raise(r.self) ELSE Return(commit(r.self), <<>>)

\* variant: a plain INSERT
InsertOneStmtPlain(col_names) ==
    [Stmt("insert") EXCEPT !.cols = Slice1(col_names)]

InsertOneStmt(col_names) ==
    [Stmt("insert") EXCEPT !.orReplace = TRUE, !.cols = Slice1(col_names)]

insert_one(self, obj) ==
    LET col_names == table_columns(self)
        stmt == InsertOneStmt(col_names)
        r == cursor_execute(self, stmt, GetAttrs(obj, Slice1(col_names)))
    IN IF r.raised THEN Raise(r.self) ELSE Return(commit(r.self), <<>>)

InsertManyStmt(col_names) ==
    [Stmt("insert") EXCEPT !.cols = Slice1(col_names)]

insert_many(self, objs) ==
    LET col_names == table_columns(self)
        stmt == InsertManyStmt(col_names)
        values == [k \in 1..Len(objs) |->
                      GetAttrs(objs[k], Slice1(col_names))]
        r == cursor_executemany(self, stmt, values)
    IN IF r.raised THEN Raise(r.self) ELSE Return(commit(r.self), <<>>)

SelectStmt(col_names, query) ==
    [Stmt("select") EXCEPT !.cols = col_names, !.hasWhere = TRUE,
                           !.where = QueryKeys(query)]

select(self, query) ==
    LET col_names == table_columns(self)
        r == cursor_execute(self, SelectStmt(col_names, query),
                            QueryValues(query))
    IN IF r.raised THEN Raise(r.self)
       ELSE Return(r.self, [k \in 1..Len(r.res) |-> Zip(col_names, r.res[k])])

select_all(self) ==
    LET col_names == table_columns(self)
        r == cursor_execute(self, Stmt("select_all"), <<>>)
    IN IF r.raised THEN Raise(r.self)
       ELSE Return(r.self, [k \in 1..Len(r.res) |-> Zip(col_names, r.res[k])])

UpdateStmt(col_names, query) ==
    [Stmt("update") EXCEPT !.cols = col_names, !.hasWhere = TRUE,
                           !.where = QueryKeys(query)]

update(self, obj, query) ==
    LET col_names == table_columns(self)
        new_values == GetAttrs(obj, col_names)
        params == new_values \o QueryValues(query)
        r == cursor_execute(self, UpdateStmt(col_names, query), params)
    IN IF r.raised THEN Raise(r.self) ELSE Return(commit(r.self), <<>>)

\* variant: only the first key of the predicate makes it into the WHERE
DeleteStmtFirstKey(query) ==
    [Stmt("delete") EXCEPT !.hasWhere = TRUE,
                           !.where = IF query = <<>> THEN <<>>
                                     ELSE <<query[1][1]>>]

\* variant: no WHERE keyword when the predicate is empty
DeleteStmtOptionalWhere(query) ==
    [Stmt("delete") EXCEPT !.hasWhere = (query # <<>>),
                           !.where = QueryKeys(query)]

DeleteStmt(query) ==
    [Stmt("delete") EXCEPT !.hasWhere = TRUE, !.where = QueryKeys(query)]

delete(self, query) ==
    LET r == cursor_execute(self, DeleteStmt(query), QueryValues(query))
    IN IF r.raised THEN Raise(r.self) ELSE Return(commit(r.self), <<>>)

\* variant: the table dropped instead of emptied
delete_all_by_drop(self) == drop_table(self)

delete_all(self) ==
    LET r == cursor_execute(self, Stmt("delete"), <<>>)
    IN IF r.raised THEN Raise(r.self) ELSE Return(commit(r.self), <<>>)

----------------------------------------------------------------------------
(* Inputs *)

Slugs == {TextV("a"), TextV("b")}
Emails == {TextV("x")}

\* records: objects with the attributes of the mapped columns; id, slug
\* and email possibly None, created_on left at its default None
Objs ==
    [id : {Null, IntV(1), IntV(2)},
     slug : Slugs \cup {Null},
     email : Emails \cup {Null},
     created_on : {Null}]

\* records of a bulk insert: no id
BatchObjs == {obj \in Objs : obj.id = Null /\ obj.email # Null}

Batches == UNION {[1..n -> BatchObjs] : n \in 0..MaxBatch}

\* predicates: dicts column -> scalar (never None, by the type of query)
Queries ==
    {<<>>}
    \cup {<< <<"slug", v>> >> : v \in Slugs}
    \cup {<< <<"email", v>> >> : v \in Emails}
    \cup {<< <<"id", IntV(1)>> >>}
    \cup {<< <<"slug", TextV("a")>>, <<"id", IntV(1)>> >>}
    \cup {<< <<"email", TextV("x")>>, <<"slug", TextV("a")>> >>}

----------------------------------------------------------------------------
(* The state machine: one action per public method.  last records the      *)
(* method just called, whether it raised, and the number of rows the       *)
(* connection saw before it.                                               *)

Call(op) == [op |-> op, raised |-> FALSE, before |-> 0]

Me == Self(conn, committed, inTxn)

Finish(out, call) ==
    /\ conn' = out.self.conn
    /\ committed' = out.self.committed
    /\ inTxn' = out.self.inTxn
    /\ last' = [call EXCEPT !.raised = out.raised,
                            !.before = Cardinality(conn.rows)]

Init ==
    /\ conn = NoTable
    /\ committed = NoTable
    /\ inTxn = FALSE
    /\ last = Call("init")

CreateTable ==
    \E fields \in FieldSets :
        Finish(create_table(Me, fields), Call("create_table"))

DropTable == Finish(drop_table(Me), Call("drop_table"))

CreateTrigger ==
    \E name \in TriggerNames :
        Finish(create_trigger(Me, name), Call("create_trigger"))

\* the engine's rowids are kept within 1..MaxId
RoomFor(n) == MaxRowId(conn.schema, conn.rows) + n <= MaxId

InsertOne ==
    \E obj \in Objs :
        /\ RoomFor(1)
        /\ Finish(insert_one(Me, obj), Call("insert_one"))

InsertMany ==
    \E objs \in Batches :
        /\ RoomFor(Len(objs))
        /\ Finish(insert_many(Me, objs), Call("insert_many"))

Select ==
    \E query \in Queries :
        Finish(select(Me, query), Call("select"))

SelectAll == Finish(select_all(Me), Call("select_all"))

Update ==
    \E obj \in Objs, query \in Queries :
        Finish(update(Me, obj, query), Call("update"))

Delete ==
    \E query \in Queries :
        Finish(delete(Me, query), Call("delete"))

DeleteAll == Finish(delete_all(Me), Call("delete_all"))

Next ==
    \/ CreateTable
    \/ DropTable
    \/ CreateTrigger
    \/ InsertOne
    \/ InsertMany
    \/ Select
    \/ SelectAll
    \/ Update
    \/ Delete
    \/ DeleteAll

Spec == Init /\ [][Next]_vars

----------------------------------------------------------------------------
(* Vocabulary of the properties *)

Rows(self) == self.conn.rows

\* the record a row materializes to
RecordOf(schema, row) ==
    [name \in Range(ColNames(schema)) |-> row[ColIndex(schema, name)]]

\* every predicate column of the record equals its predicate value
Satisfies(rec, query) ==
    \A i \in 1..Len(query) : rec[query[i][1]] = query[i][2]

Hits(self, query) ==
    {r \in Rows(self) : Satisfies(RecordOf(self.conn.schema, r), query)}

UniqueCols(schema) ==
    {schema[i].name : i \in {j \in 1..Len(schema) : schema[j].unique}}

BoundCols(schema) == Range(Slice1(ColNames(schema)))

\* the record has a value for every NOT NULL column
Valid(schema, obj) ==
    \A i \in 1..Len(schema) : schema[i].notnull => obj[schema[i].name] # Null

Eq(col, v) == << <<col, v>> >>

Results(out) == {out.result[k] : k \in 1..Len(out.result)}

----------------------------------------------------------------------------
(* C1 *)

\* C1 as claimed: after insert_one of a valid record, a select on the
\* record's value of a unique column returns exactly one record, which
\* has the record's value in every non-identity column.
C1_RoundTripEveryColumn ==
    \A obj \in Objs :
        (conn.exists /\ Valid(conn.schema, obj)) =>
            LET ins == insert_one(Me, obj)
            IN /\ ~ins.raised
               /\ \A u \in UniqueCols(conn.schema) :
                    LET sel == select(ins.self, Eq(u, obj[u]))
                    IN /\ ~sel.raised
                       /\ Len(sel.result) = 1
                       /\ \A c \in BoundCols(conn.schema) :
                              sel.result[1][c] = obj[c]

\* C1 amended: after insert_one of a valid record, a select on the record's
\* value of a unique column returns exactly one record; it has the
\* record's value in every non-identity column, except that under the
\* created_on trigger the created_on column holds the trigger's timestamp.
C1_RoundTrip ==
    \A obj \in Objs :
        (conn.exists /\ Valid(conn.schema, obj)) =>
            LET ins == insert_one(Me, obj)
            IN /\ ~ins.raised
               /\ \A u \in UniqueCols(conn.schema) :
                    LET sel == select(ins.self, Eq(u, obj[u]))
                    IN /\ ~sel.raised
                       /\ Len(sel.result) = 1
                       /\ \A c \in BoundCols(conn.schema) :
                              IF c = "created_on"
                                 /\ CreatedOnTrigger \in conn.triggers
                              THEN sel.result[1][c] = CurrentTimestamp
                              ELSE sel.result[1][c] = obj[c]

\* an insert_one has stored a record in a table that has the trigger
C1_Witness ==
    /\ last.op = "insert_one"
    /\ ~last.raised
    /\ CreatedOnTrigger \in conn.triggers
    /\ \E r \in conn.rows :
          RecordOf(conn.schema, r)["created_on"] = CurrentTimestamp

----------------------------------------------------------------------------
(* C2 *)

\* C2 as claimed: update(obj, query) overwrites every column (id included)
\* of every row satisfying the predicate with obj's values, leaves the
\* other rows alone and keeps the number of rows.
C2_UpdateExactlyMatching ==
    \A obj \in Objs, query \in Queries \ {<<>>} :
        LET out == update(Me, obj, query)
            hits == Hits(Me, query)
            new == GetAttrs(obj, ColNames(conn.schema))
        IN (conn.exists /\ ~PrepareError(conn, UpdateStmt(ColNames(conn.schema), query))) =>
              /\ Rows(out.self) =
                    (conn.rows \ hits) \cup (IF hits = {} THEN {} ELSE {new})
              /\ Cardinality(Rows(out.self)) = Cardinality(conn.rows)

----------------------------------------------------------------------------
(* C3 *)

\* C3: in every reachable state with the table, delete_all returns, after
\* it select_all returns the empty list, and the table still has its schema.
C3_DeleteAllLeavesZeroRows ==
    conn.exists =>
        LET out == delete_all(Me)
            all == select_all(out.self)
        IN /\ ~out.raised
           /\ ~all.raised
           /\ all.result = <<>>
           /\ out.self.conn.exists
           /\ out.self.conn.schema = conn.schema
           /\ get_table_info(out.self) = get_table_info(Me)

\* delete_all has emptied a table that had rows
C3_Witness ==
    /\ last.op = "delete_all"
    /\ ~last.raised
    /\ last.before > 0
    /\ conn.exists
    /\ conn.rows = {}

----------------------------------------------------------------------------
(* C4 *)

\* C4: when delete(query) returns, a select with the same predicate returns
\* the empty list, no row has been added, and every row that did not
\* satisfy the predicate is still there unchanged.
C4_DeleteExactlyMatching ==
    \A query \in Queries :
        LET out == delete(Me, query)
            sel == select(out.self, query)
        IN ~out.raised =>
              /\ ~sel.raised
              /\ sel.result = <<>>
              /\ Rows(out.self) = conn.rows \ Hits(Me, query)

\* a delete has removed some rows and left others
C4_Witness ==
    /\ last.op = "delete"
    /\ ~last.raised
    /\ conn.rows # {}
    /\ Cardinality(conn.rows) < last.before

----------------------------------------------------------------------------
(* C5 *)

\* C5: when select(query) returns, its result has one record per row in
\* which every predicate column equals its value and no other record, each
\* record mapping every column name to the row's value of that column;
\* the database and the transaction state are as before.
C5_SelectConjunction ==
    \A query \in Queries :
        LET out == select(Me, query)
        IN ~out.raised =>
              /\ Results(out) =
                    {RecordOf(conn.schema, r) : r \in Hits(Me, query)}
              /\ Len(out.result) = Cardinality(Hits(Me, query))
              /\ out.self = Me

\* a select has run on a table in which a two-column predicate separates
\* the rows matching both columns from a row matching only one
C5_Witness ==
    /\ last.op = "select"
    /\ ~last.raised
    /\ \E query \in Queries :
          /\ Len(query) = 2
          /\ ~select(Me, query).raised
          /\ Hits(Me, query) # {}
          /\ \E r \in conn.rows \ Hits(Me, query), i \in 1..2 :
                Satisfies(RecordOf(conn.schema, r), <<query[i]>>)

----------------------------------------------------------------------------
(* C6 *)

\* the table info of a table created from the given column definitions,
\* written out as the assertion of test_create_table writes it
ExpectedInfo(fields) ==
    IF fields = FieldsLoc
    THEN << <<0, "id", "INTEGER", 0, Null, 1>>,
            <<1, "slug", "TEXT", 1, Null, 0>>,
            <<2, "email", "TEXT", 1, Null, 0>>,
            <<3, "created_on", "TEXT", 0, Null, 0>> >>
    ELSE << <<0, "id", "INTEGER", 0, Null, 1>>,
            <<1, "created_on", "TEXT", 0, Null, 0>>,
            <<2, "slug", "TEXT", 1, Null, 0>> >>

\* C6: create_table never raises; on a database without the table it
\* creates the table with the id column first and the given columns in the
\* given order, empty, and returns that schema; on a database with the
\* table, whatever the definitions passed, the connection's view (schema,
\* rows, triggers) stays as it is and the existing schema is returned.
C6_CreateTableIdempotent ==
    \A fields \in FieldSets :
        LET out == create_table(Me, fields)
        IN /\ ~out.raised
           /\ IF conn.exists
              THEN /\ out.self.conn = conn
                   /\ out.result = get_table_info(Me)
              ELSE /\ out.result = ExpectedInfo(fields)
                   /\ out.self.conn.exists
                   /\ Rows(out.self) = {}
                   /\ \A again \in FieldSets :
                         create_table(out.self, again).result = out.result

\* create_table has been called on a table that had rows, and they are
\* still there
C6_Witness ==
    /\ last.op = "create_table"
    /\ ~last.raised
    /\ last.before > 0
    /\ Cardinality(conn.rows) = last.before

----------------------------------------------------------------------------
(* C7 *)

\* C7 as claimed: between two calls the connection holds no uncommitted
\* change: what the connection sees is what is committed.
C7_NothingUncommittedBetweenCalls == conn = committed

----------------------------------------------------------------------------
(* C8 *)

\* the record's value on some UNIQUE column is that of an existing row
Conflicts(self, obj) ==
    {r \in Rows(self) :
        \E u \in UniqueCols(self.conn.schema) :
            RecordOf(self.conn.schema, r)[u] = obj[u]}

InsertOrReplaces(obj) ==
    LET schema == conn.schema
        ins == insert_one(Me, obj)
        again == insert_one(ins.self, obj)
    IN /\ ~ins.raised
       /\ Cardinality(Rows(ins.self)) <= Cardinality(conn.rows)
       /\ Conflicts(Me, obj) \cap Rows(ins.self) = {}
       /\ ~again.raised
       /\ Cardinality(Rows(again.self)) = Cardinality(Rows(ins.self))
       /\ \A u \in UniqueCols(schema) :
             /\ Len(select(ins.self, Eq(u, obj[u])).result) = 1
             /\ Len(select(again.self, Eq(u, obj[u])).result) = 1
             \* the stored id is the engine's: the largest rowid + 1
             /\ select(ins.self, Eq(u, obj[u])).result[1]["id"] =
                   IntV(MaxRowId(schema, conn.rows) + 1)
       \* and the record's own id has no part in it
       /\ \A id \in {o.id : o \in Objs} :
             insert_one(Me, [obj EXCEPT !.id = id]).self = ins.self

\* C8 as claimed: whenever the record's value on a UNIQUE column equals
\* that of an existing row, insert_one does not fail, adds no row and
\* replaces the existing row; a repeated insert_one of the record leaves
\* exactly one record for that unique value; the id is the engine's.
C8_InsertOrReplaceAnyRecord ==
    \A obj \in Objs :
        (conn.exists /\ Conflicts(Me, obj) # {}) => InsertOrReplaces(obj)

\* C8 amended: the same for a record that has a value for every NOT NULL
\* column of the table.
C8_InsertOrReplace ==
    \A obj \in Objs :
        (conn.exists /\ Conflicts(Me, obj) # {} /\ Valid(conn.schema, obj))
            => InsertOrReplaces(obj)

\* an insert_one has replaced a row: the table had rows before, has as
\* many now, and the rowid 1 the first insert assigned is gone
C8_Witness ==
    /\ last.op = "insert_one"
    /\ ~last.raised
    /\ last.before > 0
    /\ Cardinality(conn.rows) = last.before
    /\ \A r \in conn.rows : RowId(conn.schema, r) > last.before

----------------------------------------------------------------------------
(* C9 *)

\* C9 as claimed: when insert_many raises, the connection sees the rows it
\* saw before, and so does the database after a later call has committed;
\* when it returns, len(objs) rows have been added.
C9_InsertManyAllOrNothing ==
    \A objs \in Batches :
        conn.exists =>
            LET out == insert_many(Me, objs)
                later == create_table(out.self, FieldsLoc)
            IN IF out.raised
               THEN /\ Rows(out.self) = conn.rows
                    /\ later.self.committed.rows = conn.rows
               ELSE Cardinality(Rows(out.self)) =
                       Cardinality(conn.rows) + Len(objs)

----------------------------------------------------------------------------
(* C10 *)

\* C10: select, update and delete with the empty predicate raise and leave
\* the connection's view, the committed database and the transaction state
\* as they were.
C10_EmptyPredicateRaises ==
    \A obj \in Objs :
        LET s == select(Me, <<>>)
            u == update(Me, obj, <<>>)
            d == delete(Me, <<>>)
        IN /\ s.raised /\ s.self = Me
           /\ u.raised /\ u.self = Me
           /\ d.raised /\ d.self = Me

\* a delete has raised on a table with rows all of whose predicate columns
\* exist (so that it was the empty predicate), and the rows are there
C10_Witness ==
    /\ last.op = "delete"
    /\ last.raised
    /\ \A query \in Queries \ {<<>>} :
          ~PrepareError(conn, DeleteStmt(query))
    /\ conn.rows # {}
    /\ Cardinality(conn.rows) = last.before

====
